---------------------------- MODULE Spec2Model ----------------------------
(***************************************************************************)
(* Text Neck Haptic Guard: the posture monitor (src/unnamed/part_001) and  *)
(* its calibration wizard (src/pwa/js/calibration.js) as one state         *)
(* machine.                                                                *)
(*                                                                         *)
(* Numbers.  JavaScript numbers are modelled in fixed point:               *)
(*   - landmark coordinates, distances, ratios, sensitivity and the        *)
(*     wizard's thresholds are in thousandths (1200 is 1.2);               *)
(*   - badPostureThreshold, a product of two such numbers, is in           *)
(*     millionths (807500 is 0.8075);                                      *)
(*   - times are milliseconds.                                             *)
(* null is Null and NaN is NaN; both are negative, no measured value is.   *)
(***************************************************************************)
EXTENDS Integers, Sequences, FiniteSets

VARIABLES
    now,                  \* Date.now()
    hasVibrate,           \* navigator.vibrate is present
    isGuardActive,
    isCameraRunning,
    badPostureStartTime,
    lastFeedbackTime,
    baselineRatio,
    sensitivity,
    badPostureThreshold,
    latestRatio,
    timeLimitMs,
    blurMode,             \* document.body carries the class blur-mode
    settingsOpen,         \* settingsModal does not carry the class hidden
    localStorage,         \* the textNeck_* keys
    calibStatus,          \* the calibration status line: its text and color
    cameraStarts,         \* calls of camera.start() so far
    pendingStart,         \* toggleGuard continuations awaiting camera.start()
    calibrationState,     \* currentStep, samples, thresholds
    calModalOpen,         \* calModal does not carry the class hidden
    timers,               \* pending setTimeout callbacks, oldest first: wizard steps
    lastFrame,            \* history: what the latest onPoseResults call did
    calls,                \* history: the latest two triggerPenalty calls
    pulses,               \* history: the times of the latest two vibrations
    state,                \* gait app: isRecording, recordingStartTime, metrics,
                          \* pose, facingMode, stream
    view,                 \* gait app: the view that carries the class active
    animId,               \* gait app: state.animId, requests counted (0: none)
    frameLoop,            \* gait app: where frameLoop stands
    gettingMedia,         \* gait app: callers awaiting getUserMedia, oldest first
    sent,                 \* history: pose.send calls so far
    cameraStarted,        \* history: startCamera has completed since stopCamera
    cameraStopped,        \* history: stopCamera has run since startCamera
                          \* ("no", or what it found: "stream" or "no stream")
    history,              \* gait app: leftAnkleY, hipY, lastStepTime, steps
    countdown,            \* gait app: count of startRecording, while it runs
    report,               \* gait app: the data handed to showResults
    resultView,           \* gait app: what showResults put on the page
    runner,               \* gait app: how the person in view moves
    session               \* history: the recording that was last begun

vars == <<now, hasVibrate, isGuardActive, isCameraRunning, badPostureStartTime,
          lastFeedbackTime, baselineRatio, sensitivity, badPostureThreshold,
          latestRatio, timeLimitMs, blurMode, settingsOpen, localStorage,
          calibStatus,
          cameraStarts, pendingStart, calibrationState, calModalOpen, timers,
          lastFrame, calls, pulses, state, history, countdown, report,
          resultView, runner, session, view, animId, frameLoop,
          gettingMedia, sent, cameraStarted, cameraStopped>>

guardVars == <<isGuardActive, isCameraRunning, badPostureStartTime,
               lastFeedbackTime, blurMode, cameraStarts, pendingStart>>
configVars == <<baselineRatio, sensitivity, badPostureThreshold, timeLimitMs,
                localStorage, calibStatus>>
wizardVars == <<calibrationState, calModalOpen, timers>>
historyVars == <<lastFrame, calls, pulses>>
cameraVars == <<animId, frameLoop, gettingMedia, sent, cameraStarted,
                cameraStopped>>
gaitVars == <<state, history, countdown, report, resultView, runner,
              session, view, cameraVars>>

---------------------------------------------------------------------------
(* Values *)

Null == 0 - 1
NaN == 0 - 2

\* Bounds of the model.
Epoch == 20000       \* Date.now() when the page loads
TickMs == 2500       \* the clock advances in steps of TickMs
MaxTicks == 7        \* ... at most MaxTicks times
MaxSends == 2        \* pose.send calls of the gait app's frame loop
MaxPending == 2      \* getUserMedia calls awaited at a time
MaxStarts == 2       \* camera.start() calls followed
MaxSamples == 4      \* samples followed per calibration set
MaxTimers == 1       \* setTimeout callbacks pending at once

\* Program constants.
FEEDBACK_COOLDOWN == 5000
DefaultBaselineRatio == 950
DefaultSensitivity == 850
DefaultTimeLimitMs == 5000
MinEarToEar == 10           \* 0.01
MinThreshold == 100000      \* 0.1
MinSampleCount == 3

\* The values the sliders are moved to (the sliders' ranges are set by the
\* page's markup).
SensitivityValues == {500, 1000}
TimerSeconds == {5, 10}

---------------------------------------------------------------------------
(* JavaScript arithmetic on numbers that may be NaN *)

Falsy(x) == x = Null \/ x = 0 \/ x = NaN

Add(a, b) == IF a = NaN \/ b = NaN THEN NaN ELSE a + b

Mul(a, b) == IF a = NaN \/ b = NaN THEN NaN ELSE a * b

\* a / b; 0 / 0 is NaN (no other division by zero occurs in the program)
Div(a, b) == IF a = NaN \/ b = NaN \/ b = 0 THEN NaN ELSE a \div b

\* a < b: every comparison with NaN is false
Lt(a, b) == a # NaN /\ b # NaN /\ a < b

---------------------------------------------------------------------------
(* The landmark source: the frames MediaPipe Pose delivers *)

Point(x, y) == [x |-> x, y |-> y]

Pose(le, re, lm, rm, ls, rs) ==
    [leftEar |-> le, rightEar |-> re, leftMouth |-> lm, rightMouth |-> rm,
     leftShoulder |-> ls, rightShoulder |-> rs]

\* results.poseLandmarks is undefined: nobody in view
NoPose == [poseLandmarks |-> <<>>]

\* upright: ratio 1.2
Upright == [poseLandmarks |-> <<Pose(Point(450, 300), Point(550, 300),
    Point(480, 360), Point(520, 360), Point(400, 480), Point(600, 480))>>]

\* head dropped forward and to the side: ratio 0.6
Slouched == [poseLandmarks |-> <<Pose(Point(450, 360), Point(550, 360),
    Point(516, 432), Point(556, 432), Point(400, 480), Point(600, 480))>>]

\* the ears 0.005 apart: below the 0.01 limit
Degenerate == [poseLandmarks |-> <<Pose(Point(498, 300), Point(503, 300),
    Point(480, 360), Point(520, 360), Point(400, 480), Point(600, 480))>>]

\* the ears exactly 0.01 apart: ratio 0.6
Distant == [poseLandmarks |-> <<Pose(Point(495, 300), Point(505, 300),
    Point(498, 474), Point(502, 474), Point(490, 480), Point(510, 480))>>]

Frames == {NoPose, Upright, Slouched, Degenerate, Distant}

WizardFrames == {NoPose, Slouched, Degenerate}

Abs(x) == IF x < 0 THEN 0 - x ELSE x

\* Math.hypot, rounded down to the thousandth
Hypot(dx, dy) ==
    CHOOSE r \in 0..(Abs(dx) + Abs(dy)) :
        r * r <= dx * dx + dy * dy /\ (r + 1) * (r + 1) > dx * dx + dy * dy

DistMouthToShoulder(lm) ==
    LET mouthX == (lm.leftMouth.x + lm.rightMouth.x) \div 2
        mouthY == (lm.leftMouth.y + lm.rightMouth.y) \div 2
        shoulderX == (lm.leftShoulder.x + lm.rightShoulder.x) \div 2
        shoulderY == (lm.leftShoulder.y + lm.rightShoulder.y) \div 2
    IN  Hypot(mouthX - shoulderX, mouthY - shoulderY)

DistEarToEar(lm) ==
    Hypot(lm.leftEar.x - lm.rightEar.x, lm.leftEar.y - lm.rightEar.y)

IsCoincident(distEarToEar) == distEarToEar <= 0

\* if (distEarToEar < 0.01) return;
IsDegenerate(distEarToEar) == distEarToEar < MinEarToEar

\* distMouthToShoulder / distEarToEar, in thousandths
Ratio(lm) == (DistMouthToShoulder(lm) * 1000) \div DistEarToEar(lm)

\* The measurements of every frame, computed once.
Metrics ==
    [f \in Frames |->
        IF f.poseLandmarks = <<>>
        THEN [distEarToEar |-> 0, ratio |-> 0]
        ELSE LET lm == f.poseLandmarks[1]
             IN  [distEarToEar |-> DistEarToEar(lm),
                  ratio |-> IF DistEarToEar(lm) = 0 THEN 0 ELSE Ratio(lm)]]

\* The ear-to-shoulder vertical distance of every frame, avg(shoulder.y) -
\* avg(ear.y): the measurement the shrug threshold is meant for. The monitor
\* does not compute it.
EarToShoulderDistance ==
    [f \in Frames |->
        IF f.poseLandmarks = <<>> THEN 0
        ELSE LET lm == f.poseLandmarks[1]
             IN  (lm.leftShoulder.y + lm.rightShoulder.y) \div 2
                 - (lm.leftEar.y + lm.rightEar.y) \div 2]

---------------------------------------------------------------------------
(* The posture monitor *)

ThresholdOfDefaults(baseline, sens) ==
    DefaultBaselineRatio * DefaultSensitivity

\* badPostureThreshold = baselineRatio * sensitivity, at least 0.1
UpdateThreshold(baseline, sens) ==
    LET threshold == Mul(baseline, sens)
    IN  IF Lt(threshold, MinThreshold) THEN MinThreshold ELSE threshold

\* if (latestRatio < badPostureThreshold)
IsBadPosture(ratio, threshold) == Lt(Mul(ratio, 1000), threshold)

StreakStartKept(isBad, startTime, t) ==
    IF Falsy(startTime) THEN (IF isBad THEN t ELSE Null) ELSE startTime

\* handleBadPosture: badPostureStartTime after the call
StreakStart(isBad, startTime, t) ==
    IF isBad THEN (IF Falsy(startTime) THEN t ELSE startTime) ELSE Null

ReachesTimeLimit(duration, limit) == duration >= limit

\* handleBadPosture: if (duration > timeLimitMs)
ExceedsTimeLimit(duration, limit) == duration > limit

CooldownReached(t, last) == t - last >= FEEDBACK_COOLDOWN

\* triggerPenalty: if (now - lastFeedbackTime > FEEDBACK_COOLDOWN)
CooldownElapsed(t, last) == t - last > FEEDBACK_COOLDOWN

FeedbackTimeKept(t, last) == last

\* triggerPenalty: lastFeedbackTime after a call that found the cooldown over
FeedbackTime(t, last) == t

\* triggerPenalty: the class blur-mode after the call
PenaltyClass(blur) == TRUE

KeepLast(seq, x) == IF Len(seq) < 2 THEN Append(seq, x) ELSE <<seq[2], x>>

VibrateUnguarded(available, over) == over

\* triggerPenalty: navigator.vibrate is called, inside the cooldown test, only
\* if (navigator.vibrate)
Vibrate(available, over) == over /\ available

TriggerPenalty ==
    LET over == CooldownElapsed(now, lastFeedbackTime)
        pulse == Vibrate(hasVibrate, over)
    IN  /\ blurMode' = PenaltyClass(blurMode)
        /\ lastFeedbackTime' =
               IF over THEN FeedbackTime(now, lastFeedbackTime)
               ELSE lastFeedbackTime
        /\ pulses' = IF pulse THEN KeepLast(pulses, now) ELSE pulses
        /\ calls' = KeepLast(calls, [t |-> now, last |-> lastFeedbackTime,
                                     pulsed |-> pulse, blur |-> blurMode'])

FeedbackTimeCleared(last) == 0

\* disablePenalty: lastFeedbackTime after the call (it is not assigned)
FeedbackTimeHeld(last) == last

PenaltyLeftOn ==
    /\ blurMode' = blurMode
    /\ lastFeedbackTime' = lastFeedbackTime

\* disablePenalty
DisablePenalty ==
    /\ blurMode' = FALSE
    /\ lastFeedbackTime' = FeedbackTimeHeld(lastFeedbackTime)

HandleBadPosture(isBad) ==
    LET start == StreakStart(isBad, badPostureStartTime, now)
        duration == now - start
    IN  /\ badPostureStartTime' = start
        /\ IF isBad
           THEN IF ExceedsTimeLimit(duration, timeLimitMs)
                THEN TriggerPenalty
                ELSE UNCHANGED <<blurMode, lastFeedbackTime, pulses, calls>>
           ELSE DisablePenalty /\ UNCHANGED <<pulses, calls>>

FrameRecord(class, f, duration, triggered) ==
    [class |-> class, duration |-> duration, triggered |-> triggered]

OnPoseResults(f) ==
    IF f.poseLandmarks = <<>>
    THEN /\ lastFrame' = FrameRecord("IDLE", f, Null, FALSE)
         /\ UNCHANGED <<latestRatio, badPostureStartTime, blurMode,
                        lastFeedbackTime, pulses, calls>>
    ELSE IF IsDegenerate(Metrics[f].distEarToEar)
    THEN /\ lastFrame' = FrameRecord("REJECTED", f, Null, FALSE)
         /\ UNCHANGED <<latestRatio, badPostureStartTime, blurMode,
                        lastFeedbackTime, pulses, calls>>
    ELSE /\ latestRatio' = Metrics[f].ratio
         /\ IF ~isGuardActive
            THEN /\ lastFrame' = FrameRecord("UNCLASSIFIED", f, Null, FALSE)
                 /\ UNCHANGED <<badPostureStartTime, blurMode,
                                lastFeedbackTime, pulses, calls>>
            ELSE LET isBad == IsBadPosture(latestRatio', badPostureThreshold)
                 IN  /\ HandleBadPosture(isBad)
                     /\ lastFrame' = FrameRecord(
                            IF isBad THEN "SLOUCH" ELSE "GOOD", f,
                            IF isBad THEN now - badPostureStartTime' ELSE Null,
                            isBad /\ ExceedsTimeLimit(
                                now - badPostureStartTime', timeLimitMs))

\* a frame handler that would also take the frame's ratio as the baseline
FrameCalibrating(f) ==
    /\ cameraStarts > 0
    /\ isGuardActive \/ settingsOpen
    /\ OnPoseResults(f)
    /\ baselineRatio' = IF latestRatio' > 0 THEN latestRatio' ELSE baselineRatio
    /\ UNCHANGED <<now, hasVibrate, isGuardActive, isCameraRunning,
                   cameraStarts, pendingStart, settingsOpen>>
    /\ UNCHANGED <<sensitivity, badPostureThreshold, timeLimitMs,
                   localStorage, calibStatus, wizardVars>>
    /\ UNCHANGED gaitVars

\* camera.onFrame, then pose.onResults
Frame(f) ==
    /\ cameraStarts > 0
    /\ isGuardActive \/ settingsOpen
    /\ OnPoseResults(f)
    /\ UNCHANGED <<now, hasVibrate, isGuardActive, isCameraRunning,
                   cameraStarts, pendingStart, settingsOpen>>
    /\ UNCHANGED <<configVars, wizardVars>>
    /\ UNCHANGED gaitVars

\* toggleBtn click, up to the await of camera.start()
ToggleGuard ==
    /\ isGuardActive' = ~isGuardActive
    /\ IF ~isGuardActive
       THEN /\ IF ~isCameraRunning
               THEN /\ cameraStarts < MaxStarts
                    /\ cameraStarts' = cameraStarts + 1
                    /\ pendingStart' = pendingStart + 1
               ELSE UNCHANGED <<cameraStarts, pendingStart>>
            /\ UNCHANGED <<blurMode, badPostureStartTime, lastFeedbackTime>>
       ELSE /\ DisablePenalty
            /\ badPostureStartTime' = Null
            /\ UNCHANGED <<cameraStarts, pendingStart>>
    /\ UNCHANGED <<now, hasVibrate, isCameraRunning, latestRatio,
                   settingsOpen>>
    /\ UNCHANGED <<configVars, wizardVars, historyVars>>
    /\ UNCHANGED gaitVars

\* toggleGuard after the await: isCameraRunning = true
CameraStarted ==
    /\ pendingStart > 0
    /\ pendingStart' = pendingStart - 1
    /\ isCameraRunning' = TRUE
    /\ UNCHANGED <<now, hasVibrate, isGuardActive, badPostureStartTime,
                   lastFeedbackTime, blurMode, cameraStarts, latestRatio,
                   settingsOpen>>
    /\ UNCHANGED <<configVars, wizardVars, historyVars>>
    /\ UNCHANGED gaitVars

\* settingsBtn click
OpenSettings ==
    /\ ~settingsOpen
    /\ ~calModalOpen
    /\ settingsOpen' = TRUE
    /\ UNCHANGED <<now, hasVibrate, latestRatio>>
    /\ UNCHANGED <<guardVars, configVars, wizardVars, historyVars>>
    /\ UNCHANGED gaitVars

\* closeSettingsBtn click (loadTextBtn hides the modal the same way)
CloseSettings ==
    /\ settingsOpen
    /\ ~calModalOpen
    /\ settingsOpen' = FALSE
    /\ UNCHANGED <<now, hasVibrate, latestRatio>>
    /\ UNCHANGED <<guardVars, configVars, wizardVars, historyVars>>
    /\ UNCHANGED gaitVars

\* sensitivitySlider input
SensitivityInput(value) ==
    /\ settingsOpen
    /\ ~calModalOpen
    /\ sensitivity' = value
    /\ localStorage' = [localStorage EXCEPT !.sensitivity = value]
    /\ badPostureThreshold' = UpdateThreshold(baselineRatio, value)
    /\ UNCHANGED <<now, hasVibrate, latestRatio, settingsOpen, baselineRatio,
                   timeLimitMs, calibStatus>>
    /\ UNCHANGED <<guardVars, wizardVars, historyVars>>
    /\ UNCHANGED gaitVars

\* timerSlider input
TimerInput(seconds) ==
    /\ settingsOpen
    /\ ~calModalOpen
    /\ timeLimitMs' = seconds * 1000
    /\ localStorage' = [localStorage EXCEPT !.timer = seconds * 1000]
    /\ UNCHANGED <<now, hasVibrate, latestRatio, settingsOpen, baselineRatio,
                   sensitivity, badPostureThreshold, calibStatus>>
    /\ UNCHANGED <<guardVars, wizardVars, historyVars>>
    /\ UNCHANGED gaitVars

\* the status line's green and red
Green == "#10b981"
Red == "#ef4444"

\* calibrateBtn click
PerformCalibration ==
    /\ settingsOpen
    /\ ~calModalOpen
    /\ IF latestRatio > 0
       THEN /\ baselineRatio' = latestRatio
            /\ badPostureThreshold' = UpdateThreshold(latestRatio, sensitivity)
            /\ localStorage' = [localStorage EXCEPT !.baseline = latestRatio]
            /\ calibStatus' = [innerText |-> "Calibrated!", color |-> Green]
       ELSE /\ calibStatus' =
                   [innerText |-> "Error: No camera data. Start Guard first?",
                    color |-> Red]
            /\ UNCHANGED <<baselineRatio, badPostureThreshold, localStorage>>
    /\ UNCHANGED <<now, hasVibrate, latestRatio, settingsOpen, sensitivity,
                   timeLimitMs>>
    /\ UNCHANGED <<guardVars, wizardVars, historyVars>>
    /\ UNCHANGED gaitVars

\* the clock
Tick ==
    /\ now < Epoch + MaxTicks * TickMs
    /\ now' = now + TickMs
    /\ UNCHANGED <<hasVibrate, latestRatio, settingsOpen>>
    /\ UNCHANGED <<guardVars, configVars, wizardVars, historyVars>>
    /\ UNCHANGED gaitVars

---------------------------------------------------------------------------
(* The calibration wizard *)

SampleTypes == {"goodPosture", "slouch", "tilt", "shrug"}

NoSamples == [type \in SampleTypes |-> <<>>]

\* the wizard step that shows the collect button of a sample type
CollectStep(type) ==
    CASE type = "goodPosture" -> 1
      [] type = "slouch" -> 2
      [] type = "tilt" -> 3
      [] type = "shrug" -> 4

RECURSIVE Sum(_)
Sum(seq) == IF seq = <<>> THEN 0 ELSE Add(Head(seq), Sum(Tail(seq)))

\* arr.reduce((sum, val) => sum + val, 0) / arr.length
Average(arr) == Div(Sum(arr), Len(arr))

Ratios(samples) == [i \in 1..Len(samples) |-> samples[i].ratio]
EarYDiffs(samples) == [i \in 1..Len(samples) |-> samples[i].earYDiff]
EarToShoulderDists(samples) ==
    [i \in 1..Len(samples) |-> samples[i].earToShoulderDist]

\* (a + b) / 2
Midpoint(a, b) == Div(Add(a, b), 2)

\* the thresholds calculateThresholds derives from the sample sets
Thresholds(samples, date) ==
    LET avgGoodRatio == Average(Ratios(samples["goodPosture"]))
        avgSlouchRatio == Average(Ratios(samples["slouch"]))
        avgTiltEarYDiff == Average(EarYDiffs(samples["tilt"]))
        avgShrugDist == Average(EarToShoulderDists(samples["shrug"]))
    IN  [baselineRatio |-> avgGoodRatio,
         slouchThreshold |-> Midpoint(avgGoodRatio, avgSlouchRatio),
         tiltThreshold |-> Div(Mul(avgTiltEarYDiff, 8), 10),
         shrugThreshold |-> Midpoint(avgGoodRatio, avgShrugDist),
         calibrationDate |-> date]

\* calculateThresholds: calibrationState.thresholds after the call
CalculateThresholds(samples, old, date) == <<Thresholds(samples, date)>>

\* collectSample: the sample taken from the live measurements;
\* window.latestEarToShoulderDist and window.latestEarYDiff are never set
Sample(ratio) == [ratio |-> ratio, earToShoulderDist |-> 0, earYDiff |-> 0]

\* openCalWizardBtn click
OpenCalibrationWizard ==
    /\ settingsOpen
    /\ ~calModalOpen
    /\ calibrationState' = [calibrationState EXCEPT
           !.currentStep = 0, !.samples = NoSamples]
    /\ calModalOpen' = TRUE
    /\ IF ~isCameraRunning
       THEN /\ cameraStarts < MaxStarts
            /\ cameraStarts' = cameraStarts + 1
            /\ isCameraRunning' = TRUE
       ELSE UNCHANGED <<cameraStarts, isCameraRunning>>
    /\ UNCHANGED <<now, hasVibrate, isGuardActive, badPostureStartTime,
                   lastFeedbackTime, blurMode, pendingStart, latestRatio,
                   settingsOpen, timers>>
    /\ UNCHANGED <<configVars, historyVars>>
    /\ UNCHANGED gaitVars

\* calCancelBtn click
CloseCalibrationWizard ==
    /\ calModalOpen
    /\ calModalOpen' = FALSE
    /\ UNCHANGED <<now, hasVibrate, latestRatio, settingsOpen,
                   calibrationState, timers>>
    /\ UNCHANGED <<guardVars, configVars, historyVars>>
    /\ UNCHANGED gaitVars

\* calStartBtn click
StartCalibration ==
    /\ calModalOpen
    /\ calibrationState.currentStep = 0
    /\ calibrationState' = [calibrationState EXCEPT !.currentStep = 1]
    /\ UNCHANGED <<now, hasVibrate, latestRatio, settingsOpen, calModalOpen,
                   timers>>
    /\ UNCHANGED <<guardVars, configVars, historyVars>>
    /\ UNCHANGED gaitVars

\* a collect button's click
CollectSample(type) ==
    /\ calModalOpen
    /\ calibrationState.currentStep = CollectStep(type)
    /\ Len(calibrationState.samples[type]) < MaxSamples
    /\ IF Falsy(latestRatio)
       THEN UNCHANGED <<calibrationState, timers>>
       ELSE LET samples == [calibrationState.samples EXCEPT
                    ![type] = Append(@, Sample(latestRatio))]
                count == Len(samples[type])
                enough == count >= MinSampleCount
            IN  /\ enough => Len(timers) < MaxTimers
                /\ calibrationState' = [calibrationState EXCEPT
                       !.samples = samples,
                       !.thresholds =
                           IF enough /\ type = "shrug"
                           THEN CalculateThresholds(samples, @, now)
                           ELSE @]
                /\ timers' =
                       IF enough
                       THEN Append(timers, CollectStep(type) + 1)
                       ELSE timers
    /\ UNCHANGED <<now, hasVibrate, latestRatio, settingsOpen, calModalOpen>>
    /\ UNCHANGED <<guardVars, configVars, historyVars>>
    /\ UNCHANGED gaitVars

\* the oldest setTimeout callback runs (all are set 500 ms ahead, so they
\* run in the order they were set): goToCalibrationStep(step)
TimerFires ==
    /\ timers # <<>>
    /\ timers' = Tail(timers)
    /\ calibrationState' = [calibrationState EXCEPT
           !.currentStep = Head(timers)]
    /\ UNCHANGED <<now, hasVibrate, latestRatio, settingsOpen, calModalOpen>>
    /\ UNCHANGED <<guardVars, configVars, historyVars>>
    /\ UNCHANGED gaitVars

\* calRecalibrateBtn click
Recalibrate ==
    /\ calModalOpen
    /\ calibrationState.currentStep = 5
    /\ calibrationState' = [calibrationState EXCEPT
           !.currentStep = 0, !.samples = NoSamples]
    /\ UNCHANGED <<now, hasVibrate, latestRatio, settingsOpen, calModalOpen,
                   timers>>
    /\ UNCHANGED <<guardVars, configVars, historyVars>>
    /\ UNCHANGED gaitVars

\* JSON.stringify writes NaN as null
ToJSON(x) == IF x = NaN THEN Null ELSE x

\* saveCalibration: badPostureThreshold, in millionths
SavedThreshold(thresholds) == Mul(thresholds.slouchThreshold, 1000)

\* calFinishBtn click
SaveCalibration ==
    /\ calModalOpen
    /\ calibrationState.currentStep = 5
    /\ IF calibrationState.thresholds = <<>>
       THEN UNCHANGED <<localStorage, baselineRatio, badPostureThreshold,
                        calibStatus, calModalOpen>>
       ELSE LET thresholds == calibrationState.thresholds[1]
            IN  /\ localStorage' = [localStorage EXCEPT !.calibration =
                       <<[field \in DOMAIN thresholds |->
                             ToJSON(thresholds[field])]>>]
                /\ baselineRatio' = thresholds.baselineRatio
                /\ badPostureThreshold' = SavedThreshold(thresholds)
                /\ calibStatus' = [innerText |-> "Calibrated", color |-> Green]
                /\ calModalOpen' = FALSE
    /\ UNCHANGED <<now, hasVibrate, latestRatio, settingsOpen, sensitivity,
                   timeLimitMs, calibrationState, timers>>
    /\ UNCHANGED <<guardVars, historyVars>>
    /\ UNCHANGED gaitVars

LoadSettingRaw(item, default) == item

\* loadSettings: a setting as init finds it, the stored item if there is one
\* (localStorage holds the number's shortest decimal form, which parseFloat
\* and parseInt read back to the same number) and the script's default if not
LoadSetting(item, default) == IF item # Null THEN item ELSE default

\* the page is loaded again over the same localStorage: the scripts' state is
\* initialised, then init runs loadSettings and updateThreshold;
\* loadCalibration is not called
Restart ==
    /\ isGuardActive' = FALSE
    /\ isCameraRunning' = FALSE
    /\ badPostureStartTime' = Null
    /\ lastFeedbackTime' = 0
    /\ baselineRatio' = LoadSetting(localStorage.baseline, DefaultBaselineRatio)
    /\ sensitivity' = LoadSetting(localStorage.sensitivity, DefaultSensitivity)
    /\ timeLimitMs' = LoadSetting(localStorage.timer, DefaultTimeLimitMs)
    /\ badPostureThreshold' = UpdateThreshold(baselineRatio', sensitivity')
    /\ calibStatus' = [innerText |-> IF localStorage.baseline # Null
                                     THEN "Saved" ELSE "",
                       color |-> ""]
    /\ latestRatio' = 0
    /\ blurMode' = FALSE
    /\ settingsOpen' = FALSE
    /\ cameraStarts' = 0
    /\ pendingStart' = 0
    /\ calibrationState' = [currentStep |-> 0, samples |-> NoSamples,
                            thresholds |-> <<>>]
    /\ calModalOpen' = FALSE
    /\ timers' = <<>>
    /\ lastFrame' = [class |-> "NONE", duration |-> Null, triggered |-> FALSE]
    /\ calls' = <<>>
    /\ pulses' = <<>>
    /\ UNCHANGED <<now, hasVibrate, localStorage>>
    /\ UNCHANGED gaitVars


---------------------------------------------------------------------------
(* The gait analysis app (src/pwa/js/app.js).  Landmark coordinates are in *)
(* thousandths of the frame, pixels are whole, angles are in thousandths   *)
(* of a degree, the cadence in thousandths of a step per minute and the    *)
(* oscillation in thousandths of a percent.                                *)

\* Bounds of the model.
MaxFrames == 34      \* entries of history.hipY followed
MaxRecordings == 2   \* recordings begun
MaxHipFrames == 3    \* frames followed when the hip line is varied

\* Program constants.
chunkSize == 30
MinChunkLength == 10
MinHistoryLength == 10
MinDurationMs == 1000
MinCadence == 120000
MaxCadence == 240000
FallbackCadence == 172000
MaxAnkleHistory == 20
CountdownFrom == 3
CanvasWidth == 1280
CanvasHeight == 720

Runners == {"standing", "bouncing", "striding"}

GaitPose(lh, rh, ls, rs, la) ==
    [lHip |-> lh, rHip |-> rh, lShoulder |-> ls, rShoulder |-> rs,
     lAnkle |-> la]

\* the height of the hip midpoint in the i-th frame of a runner: standing
\* still, bouncing every frame, or striding with a period of four frames
HipHeight(r, i) ==
    CASE r = "standing" -> 500
      [] r = "bouncing" -> IF i % 2 = 1 THEN 500 ELSE 525
      [] r = "striding" -> <<500, 525, 550, 525>>[((i - 1) % 4) + 1]

\* the trunk is upright, or leans 45 degrees when striding
ShoulderOffset(r) == IF r = "striding" THEN 225 ELSE 0

\* the i-th frame of a runner
StrideFrame(r, i) ==
    LET h == HipHeight(r, i)
        d == ShoulderOffset(r)
    IN  [poseLandmarks |-> <<GaitPose(Point(450, h), Point(550, h),
            Point(450 + d, h - 400), Point(550 + d, h - 400),
            Point(450, 900))>>]

\* what the pose model can deliver next: nobody found, or the runner's next
\* frame
GaitFrames == {NoPose, StrideFrame(runner, Len(history.hipY) + 1)}

\* getC: coord (0-1) -> pixels
getC(p) == Point((p.x * CanvasWidth) \div 1000, (p.y * CanvasHeight) \div 1000)

\* Math.atan2(y, x) * (180 / Math.PI), on the axes and the diagonals
Atan2Deg(y, x) ==
    CASE y = 0 /\ x >= 0 -> 0
      [] y = 0 /\ x < 0 -> 180000
      [] x = 0 /\ y > 0 -> 90000
      [] x = 0 /\ y < 0 -> 0 - 90000
      [] y = x /\ x > 0 -> 45000
      [] y = 0 - x /\ x < 0 -> 135000
      [] y = 0 - x /\ x > 0 -> 0 - 45000
      [] y = x /\ x < 0 -> 0 - 135000

\* analyzePose: the magnitude of the trunk's lean from the vertical
LeanAngle(lm) ==
    LET lHip == getC(lm.lHip)
        rHip == getC(lm.rHip)
        lShoulder == getC(lm.lShoulder)
        rShoulder == getC(lm.rShoulder)
        dx == (lShoulder.x + rShoulder.x) \div 2 - (lHip.x + rHip.x) \div 2
        dy == (lHip.y + rHip.y) \div 2 - (lShoulder.y + rShoulder.y) \div 2
    IN  Abs(Atan2Deg(dx, dy))

\* analyzePose: the angle of the hip line against the horizontal
HipAngle(lm) ==
    LET lHip == getC(lm.lHip)
        rHip == getC(lm.rHip)
    IN  Abs(Atan2Deg(rHip.y - lHip.y, rHip.x - lHip.x))

\* analyzePose: midHip.y
MidHipY(lm) == (getC(lm.lHip).y + getC(lm.rHip).y) \div 2

\* history.leftAnkleY.push(...); if (length > 20) shift()  (the buffer is
\* written and never read; the time of an entry is left out)
PushAnkle(buffer, y) ==
    LET pushed == Append(buffer, y)
    IN  IF Len(pushed) > MaxAnkleHistory THEN Tail(pushed) ELSE pushed

analyzePose(lm) ==
    /\ state' = [state EXCEPT
           !.metrics.leans = Append(@, LeanAngle(lm)),
           !.metrics.hipDrops = Append(@, HipAngle(lm))]
    /\ history' = [history EXCEPT
           !.leftAnkleY = PushAnkle(@, getC(lm.lAnkle).y),
           !.hipY = Append(@, MidHipY(lm))]
    /\ session' = [session EXCEPT !.hipY = Append(@, MidHipY(lm))]

\* the frame loop's pose.send, then onPoseResults
GaitResults(f) ==
    IF f.poseLandmarks # <<>> /\ state.isRecording
    THEN /\ Len(history.hipY) < MaxFrames
         /\ analyzePose(f.poseLandmarks[1])
    ELSE UNCHANGED <<state, history, session>>

\* a runner whose hips are at the given places, the trunk upright above them
HipLinePose(lh, rh) ==
    [poseLandmarks |-> <<GaitPose(lh, rh, Point(lh.x, lh.y - 200),
                                  Point(rh.x, rh.y - 200), Point(lh.x, 900))>>]

\* hip lines the pose model can deliver: level or tilted by 45 degrees on the
\* canvas, the runner seen from behind (left hip at the left of the image) or
\* from the front (left hip at the right)
HipLineFrames ==
    {HipLinePose(Point(400, 500), Point(625, 500)),
     HipLinePose(Point(625, 500), Point(400, 500)),
     HipLinePose(Point(400, 300), Point(625, 700)),
     HipLinePose(Point(625, 700), Point(400, 300))}

\* the pose model calls onPoseResults with one of the hip lines
HipLineFrame(f) ==
    /\ Len(history.hipY) < MaxHipFrames
    /\ GaitResults(f)
    /\ UNCHANGED <<countdown, report, resultView, runner, view, cameraVars>>
    /\ UNCHANGED <<now, hasVibrate, latestRatio, settingsOpen>>
    /\ UNCHANGED <<guardVars, configVars, wizardVars, historyVars>>

\* the pose model calls onPoseResults (here by itself; FrameLoopTurn is the
\* call that follows a pose.send of the frame loop)
GaitFrame(f) ==
    /\ GaitResults(f)
    /\ UNCHANGED <<countdown, report, resultView, runner, view, cameraVars>>
    /\ UNCHANGED <<now, hasVibrate, latestRatio, settingsOpen>>
    /\ UNCHANGED <<guardVars, configVars, wizardVars, historyVars>>

\* startRecording: the count is shown and the interval set
startRecording ==
    /\ ~state.isRecording
    /\ countdown = Null
    /\ session.number < MaxRecordings
    /\ countdown' = CountdownFrom
    /\ UNCHANGED <<state, history, report, resultView, runner, session>>
    /\ UNCHANGED <<view, cameraVars>>
    /\ UNCHANGED <<now, hasVibrate, latestRatio, settingsOpen>>
    /\ UNCHANGED <<guardVars, configVars, wizardVars, historyVars>>

\* beginCapture; the person in view sets off
beginCapture ==
    /\ state' = [state EXCEPT
           !.isRecording = TRUE,
           !.recordingStartTime = now,
           !.metrics = [cadence |-> <<>>, kneeAngles |-> <<>>,
                        hipDrops |-> <<>>, leans |-> <<>>,
                        oscillations |-> <<>>],
           !.frames = <<>>]
    /\ runner' \in Runners
    /\ session' = [number |-> session.number + 1, hipY |-> <<>>,
                   finalized |-> FALSE, stepCount |-> Null,
                   durationMs |-> Null, calculatedCadence |-> Null]

\* the countdown's setInterval callback
CountdownInterval ==
    /\ countdown # Null
    /\ IF countdown - 1 > 0
       THEN /\ countdown' = countdown - 1
            /\ UNCHANGED <<state, runner, session>>
       ELSE /\ countdown' = Null
            /\ beginCapture
    /\ UNCHANGED <<history, report, resultView, view, cameraVars>>
    /\ UNCHANGED <<now, hasVibrate, latestRatio, settingsOpen>>
    /\ UNCHANGED <<guardVars, configVars, wizardVars, historyVars>>

\* const avg = arr => arr.length ? sum / arr.length : 0
avg(arr) == IF Len(arr) > 0 THEN Sum(arr) \div Len(arr) ELSE 0

Max(S) == CHOOSE x \in S : \A y \in S : y <= x
Min(S) == CHOOSE x \in S : \A y \in S : x <= y

\* hipY.slice(i, i + chunkSize), i counted from 0
Chunk(hipY, i) ==
    SubSeq(hipY, i + 1, IF i + chunkSize < Len(hipY) THEN i + chunkSize
                        ELSE Len(hipY))

Range(seq) == {seq[k] : k \in 1..Len(seq)}

ChunkKept(chunk) == Len(chunk) >= MinChunkLength

\* processResults: oscillations, one entry for every chunk that is not
\* skipped
RECURSIVE OscillationsFrom(_, _)
OscillationsFrom(hipY, i) ==
    IF i >= Len(hipY) THEN <<>>
    ELSE LET chunk == Chunk(hipY, i)
         IN  (IF ChunkKept(chunk)
              THEN <<Max(Range(chunk)) - Min(Range(chunk))>>
              ELSE <<>>) \o OscillationsFrom(hipY, i + chunkSize)

\* processResults: if (history.hipY.length > chunkSize)
Windowed(hipY) == Len(hipY) > chunkSize

Oscillations(hipY) ==
    IF Windowed(hipY) THEN OscillationsFrom(hipY, 0) ELSE <<>>

\* avgOscillationPx / canvas.height * 100
OscillationPct(hipY) ==
    LET oscillations == Oscillations(hipY)
        avgOscillationPx ==
            IF Len(oscillations) > 0
            THEN (Sum(oscillations) * 1000) \div Len(oscillations)
            ELSE 0
    IN  (avgOscillationPx * 100) \div CanvasHeight

\* vels[i] = hipY[i] - hipY[i - 1]
Vels(hipY) == [i \in 1..(Len(hipY) - 1) |-> hipY[i + 1] - hipY[i]]

\* (vels[i] >= 0 && vels[i-1] < 0) || (vels[i] < 0 && vels[i-1] >= 0)
IsCrossing(v, w) == (w >= 0 /\ v < 0) \/ (w < 0 /\ v >= 0)

Crossings(vels) ==
    Cardinality({i \in 2..Len(vels) : IsCrossing(vels[i - 1], vels[i])})

\* processResults: stepCount
StepCount(hipY) ==
    IF Len(hipY) > MinHistoryLength THEN Crossings(Vels(hipY)) ELSE 0

\* processResults: calculatedCadence
CalculatedCadence(stepCount, durationMs) ==
    IF durationMs > MinDurationMs
    THEN (stepCount * 60000 * 1000) \div durationMs
    ELSE 0

CadenceAsCalculated(calculatedCadence) == calculatedCadence

\* processResults: estimatedCadence
EstimatedCadence(calculatedCadence) ==
    IF calculatedCadence > MinCadence /\ calculatedCadence < MaxCadence
    THEN calculatedCadence
    ELSE FallbackCadence

\* x.toFixed(digits) of a number in thousandths, in units of the last digit
\* shown (of two nearest the larger)
toFixed(x, digits) ==
    LET unit == IF digits = 0 THEN 1000 ELSE 100
    IN  (x + unit \div 2) \div unit

\* showResults evaluate: the status of a value against its target band
evaluate(val, targetMin, targetMax) ==
    IF val >= targetMin /\ val <= targetMax THEN "Good"
    ELSE IF Abs(val - targetMin) < 5000 \/ Abs(val - targetMax) < 5000
         THEN "Fair"
         ELSE "Improve"

When(condition, entries) == IF condition THEN entries ELSE <<>>

\* showResults: the recommendations that the metrics call for
Recommendations(data) ==
    When(data.cadence < 165000,
         <<"Increase cadence (take shorter, faster steps)">>)
    \o When(data.lean > 15000, <<"Run taller, reduce forward lean">>)
    \o When(data.lean < 2000, <<"Lean slightly forward from ankles">>)
    \o When(data.hipDrop > 8000,
            <<"Strengthen glutes (clamshells, bridges) to fix hip drop">>)
    \o When(data.oscillation > 10000,
            <<"Focus on gliding, not bouncing up and down">>)

\* showResults: the focus list
FocusList(data) ==
    IF Len(Recommendations(data)) = 0
    THEN <<"Great form! Keep it consistent.">>
    ELSE Recommendations(data)

\* showResults: the exercises
Exercises(data) ==
    When(data.hipDrop > 8000,
         <<"Single-leg Glute Bridges", "Clamshells (Band)">>)
    \o When(data.cadence < 165000, <<"Metronome Drills", "Ankle Hops">>)
    \o When(data.lean > 15000 \/ data.lean < 2000,
            <<"Wall Drills", "Plank Variations">>)

\* showResults: the result view after the call
showResults(data) ==
    /\ view' = "result"
    /\ resultView' =
        <<[cadenceVal |-> toFixed(data.cadence, 0),
           leanVal |-> toFixed(data.lean, 1),
           hipVal |-> toFixed(data.hipDrop, 1),
           oscVal |-> toFixed(data.oscillation, 1),
           cadenceStatus |-> evaluate(data.cadence, 170000, 185000),
           leanStatus |-> evaluate(data.lean, 2000, 12000),
           hipStatus |-> evaluate(data.hipDrop, 0, 5000),
           oscStatus |-> evaluate(data.oscillation, 0, 8000),
           focusList |-> FocusList(data),
           exercisesList |-> Exercises(data),
           exercisesShown |-> Len(Exercises(data)) > 0]>>

\* processResults: the data handed to showResults
processResults ==
    LET durationMs == now - state.recordingStartTime
        stepCount == StepCount(history.hipY)
        calculatedCadence == CalculatedCadence(stepCount, durationMs)
    IN  /\ report' = <<[cadence |-> EstimatedCadence(calculatedCadence),
                        lean |-> avg(state.metrics.leans),
                        hipDrop |-> avg(state.metrics.hipDrops),
                        oscillation |-> OscillationPct(history.hipY)]>>
        /\ showResults(report'[1])
        /\ session' = [session EXCEPT
               !.finalized = TRUE,
               !.stepCount = stepCount,
               !.durationMs = durationMs,
               !.calculatedCadence = calculatedCadence]

\* stopRecording
stopRecording ==
    /\ state.isRecording
    /\ state' = [state EXCEPT !.isRecording = FALSE]
    /\ processResults
    /\ UNCHANGED <<history, countdown, runner, cameraVars>>
    /\ UNCHANGED <<now, hasVibrate, latestRatio, settingsOpen>>
    /\ UNCHANGED <<guardVars, configVars, wizardVars, historyVars>>

---------------------------------------------------------------------------
(* The gait app: views, camera and frame loop *)

StreamNeverMissing(stream) == FALSE

\* frameLoop: !state.stream
StreamMissing(stream) == stream = "null"

\* frameLoop, from its start to the return or to the await of pose.send
RunFrameLoop(stream) ==
    IF StreamMissing(stream)
    THEN /\ frameLoop' = "returned"
         /\ UNCHANGED sent
    ELSE /\ sent < MaxSends
         /\ frameLoop' = "sending"
         /\ sent' = sent + 1

\* setupCameraStream: the tracks of a stream that is there are stopped
StopTracks(stream) == IF stream # "null" THEN "stopped" ELSE stream

\* startBtn click: startCamera, initMediaPipe and setupCameraStream up to the
\* await of getUserMedia
startCamera ==
    /\ view = "landing"
    /\ Len(gettingMedia) < MaxPending
    /\ view' = "analysis"
    /\ IF state.pose
       THEN UNCHANGED <<frameLoop, sent>>
       ELSE RunFrameLoop(state.stream)
    /\ state' = [state EXCEPT !.pose = TRUE, !.stream = StopTracks(@)]
    /\ gettingMedia' = Append(gettingMedia, "startCamera")
    /\ cameraStopped' = "no"
    /\ UNCHANGED <<animId, cameraStarted>>
    /\ UNCHANGED <<history, countdown, report, resultView, runner, session>>
    /\ UNCHANGED <<now, hasVibrate, latestRatio, settingsOpen>>
    /\ UNCHANGED <<guardVars, configVars, wizardVars, historyVars>>

\* flipBtn click: toggleCamera up to the await of getUserMedia
toggleCamera ==
    /\ view = "analysis"
    /\ Len(gettingMedia) < MaxPending
    /\ state' = [state EXCEPT
           !.facingMode = IF @ = "user" THEN "environment" ELSE "user",
           !.stream = StopTracks(@)]
    /\ gettingMedia' = Append(gettingMedia, "toggleCamera")
    /\ UNCHANGED <<view, animId, frameLoop, sent, cameraStarted,
                   cameraStopped>>
    /\ UNCHANGED <<history, countdown, report, resultView, runner, session>>
    /\ UNCHANGED <<now, hasVibrate, latestRatio, settingsOpen>>
    /\ UNCHANGED <<guardVars, configVars, wizardVars, historyVars>>

\* stopCamera
stopCamera ==
    /\ state' = [state EXCEPT !.stream = "null"]
    /\ frameLoop' = IF frameLoop = "waiting" THEN "cancelled" ELSE frameLoop
    /\ cameraStopped' = IF state.stream # "null" THEN "stream"
                        ELSE "no stream"
    /\ cameraStarted' = FALSE

\* closeBtn or newScanBtn click
showLanding ==
    /\ view # "landing"
    /\ stopCamera
    /\ view' = "landing"
    /\ UNCHANGED <<animId, gettingMedia, sent>>
    /\ UNCHANGED <<history, countdown, report, resultView, runner, session>>
    /\ UNCHANGED <<now, hasVibrate, latestRatio, settingsOpen>>
    /\ UNCHANGED <<guardVars, configVars, wizardVars, historyVars>>

\* getUserMedia resolves, the metadata loads, and the caller goes on
MediaGranted ==
    /\ gettingMedia # <<>>
    /\ gettingMedia' = Tail(gettingMedia)
    /\ state' = [state EXCEPT !.stream = "live"]
    /\ cameraStarted' = (cameraStarted \/ Head(gettingMedia) = "startCamera")
    /\ UNCHANGED <<view, animId, frameLoop, sent, cameraStopped>>
    /\ UNCHANGED <<history, countdown, report, resultView, runner, session>>
    /\ UNCHANGED <<now, hasVibrate, latestRatio, settingsOpen>>
    /\ UNCHANGED <<guardVars, configVars, wizardVars, historyVars>>

\* getUserMedia rejects: startCamera catches and shows the landing view,
\* toggleCamera does not catch
MediaDenied ==
    /\ gettingMedia # <<>>
    /\ gettingMedia' = Tail(gettingMedia)
    /\ IF Head(gettingMedia) = "startCamera"
       THEN /\ stopCamera
            /\ view' = "landing"
       ELSE UNCHANGED <<state, view, frameLoop, cameraStarted, cameraStopped>>
    /\ UNCHANGED <<animId, sent>>
    /\ UNCHANGED <<history, countdown, report, resultView, runner, session>>
    /\ UNCHANGED <<now, hasVibrate, latestRatio, settingsOpen>>
    /\ UNCHANGED <<guardVars, configVars, wizardVars, historyVars>>

\* the frame loop's turn: the pose.send in flight settles (onPoseResults is
\* called and the animation frame requested), or the requested animation
\* frame comes and frameLoop runs; with neither pending the turn is empty
FrameLoopTurn ==
    /\ CASE frameLoop = "sending" ->
                 /\ \E f \in GaitFrames : GaitResults(f)
                 /\ animId' = animId + 1
                 /\ frameLoop' = "waiting"
                 /\ UNCHANGED sent
         [] frameLoop = "waiting" ->
                 /\ RunFrameLoop(state.stream)
                 /\ UNCHANGED <<state, history, session, animId>>
         [] OTHER ->
                 UNCHANGED <<state, history, session, animId, frameLoop, sent>>
    /\ UNCHANGED <<view, gettingMedia, cameraStarted, cameraStopped>>
    /\ UNCHANGED <<countdown, report, resultView, runner>>
    /\ UNCHANGED <<now, hasVibrate, latestRatio, settingsOpen>>
    /\ UNCHANGED <<guardVars, configVars, wizardVars, historyVars>>

---------------------------------------------------------------------------
(* The state after the scripts have run on a first visit *)

Init ==
    /\ now = Epoch
    /\ hasVibrate \in BOOLEAN
    /\ isGuardActive = FALSE
    /\ isCameraRunning = FALSE
    /\ badPostureStartTime = Null
    /\ lastFeedbackTime = 0
    /\ baselineRatio = DefaultBaselineRatio
    /\ sensitivity = DefaultSensitivity
    /\ badPostureThreshold = UpdateThreshold(DefaultBaselineRatio, DefaultSensitivity)
    /\ latestRatio = 0
    /\ timeLimitMs = DefaultTimeLimitMs
    /\ blurMode = FALSE
    /\ settingsOpen = FALSE
    /\ localStorage = [baseline |-> Null, sensitivity |-> Null, timer |-> Null,
                       calibration |-> <<>>]
    /\ calibStatus = [innerText |-> "", color |-> ""]
    /\ cameraStarts = 0
    /\ pendingStart = 0
    /\ calibrationState = [currentStep |-> 0, samples |-> NoSamples,
                           thresholds |-> <<>>]
    /\ calModalOpen = FALSE
    /\ timers = <<>>
    /\ lastFrame = [class |-> "NONE", duration |-> Null, triggered |-> FALSE]
    /\ calls = <<>>
    /\ pulses = <<>>
    /\ state = [isRecording |-> FALSE, frames |-> <<>>,
                metrics |-> [cadence |-> <<>>, kneeAngles |-> <<>>,
                             hipDrops |-> <<>>, leans |-> <<>>,
                             oscillations |-> <<>>],
                recordingStartTime |-> 0, pose |-> FALSE,
                facingMode |-> "environment", stream |-> "null"]
    /\ view = "landing"
    /\ animId = 0
    /\ frameLoop = "none"
    /\ gettingMedia = <<>>
    /\ sent = 0
    /\ cameraStarted = FALSE
    /\ cameraStopped = "no"
    /\ history = [leftAnkleY |-> <<>>, rightAnkleY |-> <<>>, hipY |-> <<>>,
                  lastStepTime |-> 0, steps |-> 0]
    /\ countdown = Null
    /\ report = <<>>
    /\ resultView = <<>>
    /\ runner = "standing"
    /\ session = [number |-> 0, hipY |-> <<>>, finalized |-> FALSE,
                  stepCount |-> Null, durationMs |-> Null,
                  calculatedCadence |-> Null]

\* Monitoring: the guard, the clock, the frames and the time limit, under
\* the default baseline and sensitivity.
Next ==
    \/ Tick
    \/ ToggleGuard
    \/ CameraStarted
    \/ \E f \in Frames : Frame(f)
    \/ OpenSettings
    \/ CloseSettings
    \/ \E seconds \in TimerSeconds : TimerInput(seconds)

Spec == Init /\ [][Next]_vars

\* Calibrating: the wizard and the settings, the guard off, the clock standing
\* and the user, when in view, holding one posture.
NextWizard ==
    \/ \E f \in WizardFrames : Frame(f)
    \/ OpenSettings
    \/ CloseSettings
    \/ OpenCalibrationWizard
    \/ CloseCalibrationWizard
    \/ StartCalibration
    \/ \E type \in SampleTypes : CollectSample(type)
    \/ TimerFires
    \/ Recalibrate
    \/ SaveCalibration

SpecWizard == Init /\ [][NextWizard]_vars

\* Configuring: the wizard together with the sensitivity slider and the manual
\* zero calibration.
NextConfig ==
    \/ NextWizard
    \/ \E value \in SensitivityValues : SensitivityInput(value)
    \/ PerformCalibration

SpecConfig == Init /\ [][NextConfig]_vars

\* Classifying on calibrated thresholds: the wizard together with the guard.
NextClassify ==
    \/ NextWizard
    \/ ToggleGuard
    \/ CameraStarted

SpecClassify == Init /\ [][NextClassify]_vars

\* Restarting: configuring, and loading the page again.
NextRestart ==
    \/ NextConfig
    \/ Restart

SpecRestart == Init /\ [][NextRestart]_vars

\* Recording: the gait app's recordings, its frames and the clock.
NextGait ==
    \/ Tick
    \/ \E f \in GaitFrames : GaitFrame(f)
    \/ startRecording
    \/ CountdownInterval
    \/ stopRecording

SpecGait == Init /\ [][NextGait]_vars

\* The hip line: recordings of a runner seen from behind or from the front,
\* the hips level or tilted, the clock standing.
NextHipLine ==
    \/ \E f \in HipLineFrames : HipLineFrame(f)
    \/ startRecording
    \/ CountdownInterval
    \/ stopRecording

SpecHipLine == Init /\ [][NextHipLine]_vars

\* The gait app's views and camera: the buttons, the permission prompt, the
\* frame loop and the recording, the clock standing.
NextCamera ==
    \/ startCamera
    \/ toggleCamera
    \/ showLanding
    \/ MediaGranted
    \/ MediaDenied
    \/ FrameLoopTurn
    \/ startRecording
    \/ CountdownInterval
    \/ stopRecording

SpecCamera == Init /\ [][NextCamera]_vars

---------------------------------------------------------------------------
(* What a frame shows, read off its landmarks *)

HasPose(f) == f.poseLandmarks # <<>>

\* the ears are less than 0.01 apart
InterEarBelowEpsilon(f) ==
    HasPose(f) /\ Metrics[f].distEarToEar < 10

Measurable(f) == HasPose(f) /\ ~InterEarBelowEpsilon(f)

\* the forward-flexion ratio is below badPostureThreshold
SlouchCondition(f) ==
    /\ Measurable(f)
    /\ badPostureThreshold # NaN
    /\ Metrics[f].ratio * 1000 < badPostureThreshold

\* the ear-to-shoulder distance is below the shrug threshold the wizard
\* computed
ShrugCondition(f) ==
    /\ Measurable(f)
    /\ calibrationState.thresholds # <<>>
    /\ Lt(EarToShoulderDistance[f],
          calibrationState.thresholds[1].shrugThreshold)

---------------------------------------------------------------------------
(* Claims *)

\* C1: with the guard active, a bad frame calls triggerPenalty exactly when
\* the streak's elapsed time is strictly greater than timeLimitMs; a bad frame
\* at elapsed = timeLimitMs leaves the blur as it was and emits no pulse.
C1_StrictTimeLimit ==
    [][\A f \in Frames :
          (isGuardActive /\ SlouchCondition(f) /\ Frame(f)) =>
              LET elapsed == now - badPostureStartTime'
              IN  /\ lastFrame'.class = "SLOUCH"
                  /\ lastFrame'.triggered <=> elapsed > timeLimitMs
                  /\ lastFrame'.triggered => blurMode'
                  /\ elapsed = timeLimitMs =>
                         UNCHANGED <<blurMode, pulses, calls, lastFeedbackTime>>
      ]_vars

\* C1 witness: a bad frame has arrived at elapsed = timeLimitMs and the
\* penalty is off.
C1_Witness ==
    /\ isGuardActive
    /\ lastFrame.class = "SLOUCH"
    /\ lastFrame.duration = timeLimitMs
    /\ badPostureStartTime = now - timeLimitMs
    /\ ~lastFrame.triggered
    /\ ~blurMode
    /\ calls = <<>>

WithinCooldown == Len(calls) = 2 /\ calls[2].t - calls[1].t <= FEEDBACK_COOLDOWN

PulsesOfCalls ==
    (IF calls[1].pulsed THEN 1 ELSE 0) + (IF calls[2].pulsed THEN 1 ELSE 0)

\* C2 as stated: two triggerPenalty calls within FEEDBACK_COOLDOWN of each
\* other emit exactly one pulse between them (the actuator present), and the
\* blur is on after each.
C2_ExactlyOnePulse ==
    (hasVibrate /\ WithinCooldown) =>
        PulsesOfCalls = 1 /\ calls[1].blur /\ calls[2].blur

\* C2 as amended: two triggerPenalty calls within FEEDBACK_COOLDOWN of each
\* other emit at most one pulse between them: with the actuator present, one
\* if the second call is more than FEEDBACK_COOLDOWN after lastFeedbackTime as
\* it stood before the first call, and none otherwise; the blur is on after
\* each call.
C2_AtMostOnePulse ==
    WithinCooldown =>
        /\ calls[1].blur /\ calls[2].blur
        /\ PulsesOfCalls <= 1
        /\ hasVibrate =>
               (PulsesOfCalls = 1 <=>
                    calls[2].t - calls[1].last > FEEDBACK_COOLDOWN)
        /\ ~hasVibrate => PulsesOfCalls = 0

\* C2 witness: two calls at different times within the cooldown, the first of
\* which pulsed.
C2_Witness ==
    /\ WithinCooldown
    /\ hasVibrate
    /\ calls[1].t < calls[2].t
    /\ calls[1].pulsed
    /\ ~calls[2].pulsed
    /\ blurMode

\* C3: any two successive vibration pulses are more than FEEDBACK_COOLDOWN
\* apart.
C3_PulsesApart ==
    Len(pulses) = 2 => pulses[2] - pulses[1] > FEEDBACK_COOLDOWN

\* C3 witness: a second pulse has been emitted, after the guard was toggled or
\* the streak reset in between (the streak running now is younger than the
\* first pulse).
C3_Witness ==
    /\ Len(pulses) = 2
    /\ badPostureStartTime # Null
    /\ badPostureStartTime > pulses[1]

\* C4: a frame whose inter-ear distance is below 0.01 produces no metric and
\* leaves latestRatio, badPostureStartTime, lastFeedbackTime and the blur as
\* they were, the guard active or not.
C4_DegenerateFrameHeld ==
    [][\A f \in Frames :
          (InterEarBelowEpsilon(f) /\ Frame(f)) =>
              /\ lastFrame'.class = "REJECTED"
              /\ UNCHANGED <<latestRatio, badPostureStartTime,
                             lastFeedbackTime, blurMode, pulses, calls>>
      ]_vars

\* C4 witness: a degenerate frame has been dropped in the middle of a
\* penalised streak.
C4_Witness ==
    /\ lastFrame.class = "REJECTED"
    /\ isGuardActive
    /\ badPostureStartTime # Null
    /\ blurMode
    /\ latestRatio > 0

\* C5: with the guard active, one frame whose ratio is not below the threshold
\* sets badPostureStartTime to null and takes the blur off; and whenever
\* badPostureStartTime changes to a time, that time is the present, so a later
\* streak is timed from its own first bad frame.
C5_GoodFrameCancels ==
    [][/\ \A f \in Frames :
              (isGuardActive /\ Measurable(f) /\ ~SlouchCondition(f)
                  /\ Frame(f)) =>
                  /\ badPostureStartTime' = Null
                  /\ ~blurMode'
                  /\ lastFrame'.class = "GOOD"
       /\ badPostureStartTime' # badPostureStartTime =>
              badPostureStartTime' \in {Null, now}
      ]_vars

\* C5 witness: a good frame has just cancelled a penalised streak (it came in
\* the millisecond of the last penalty).
C5_Witness ==
    /\ isGuardActive
    /\ lastFrame.class = "GOOD"
    /\ calls # <<>>
    /\ calls[Len(calls)].t = now
    /\ badPostureStartTime = Null
    /\ ~blurMode

\* C6 as stated: with the guard active, a frame with no landmarks sets
\* badPostureStartTime to null and takes the blur off.
C6_NoPoseResets ==
    [][(isGuardActive /\ Frame(NoPose)) =>
           badPostureStartTime' = Null /\ ~blurMode'
      ]_vars

\* C7 as stated: badPostureThreshold equals baselineRatio * sensitivity in
\* every reachable state.
C7_ThresholdIsProduct ==
    badPostureThreshold = Mul(baselineRatio, sensitivity)

\* C8 as stated: a frame classified with the guard active that meets both the
\* shrug and the slouch condition is classified SHRUG.
C8_ShrugFirst ==
    [][\A f \in Frames :
          (isGuardActive /\ ShrugCondition(f) /\ SlouchCondition(f)
              /\ Frame(f)) =>
              lastFrame'.class = "SHRUG"
      ]_vars

\* C9 as stated: a collectSample that leaves a sample set below 3 computes no
\* thresholds and leaves the existing ones unchanged.
C9_InsufficientSamples ==
    [][\A type \in SampleTypes :
          ((\E t \in SampleTypes : Len(calibrationState'.samples[t]) < 3)
              /\ CollectSample(type)) =>
              calibrationState'.thresholds = calibrationState.thresholds
      ]_vars

\* C10 as stated: whenever thresholds is non-null, its four threshold fields
\* equal the formulas applied to the current sample sets.
C10_ThresholdsCurrent ==
    calibrationState.thresholds # <<>> =>
        LET held == calibrationState.thresholds[1]
            fresh == Thresholds(calibrationState.samples, 0)
        IN  /\ held.baselineRatio = fresh.baselineRatio
            /\ held.slouchThreshold = fresh.slouchThreshold
            /\ held.tiltThreshold = fresh.tiltThreshold
            /\ held.shrugThreshold = fresh.shrugThreshold

\* C11 as stated: a collectSample that follows a frame which produced no
\* metric (no landmarks, or the ears less than 0.01 apart) leaves the sample
\* sets unchanged.
C11_SampleNeedsMetric ==
    [][\A type \in SampleTypes :
          (lastFrame.class \in {"IDLE", "REJECTED"} /\ CollectSample(type)) =>
              calibrationState'.samples = calibrationState.samples
      ]_vars

\* C12 as stated: when the page is loaded again over a store that holds a
\* saved calibration, the baseline ratio and the threshold frames are
\* classified by are the saved profile's baselineRatio and slouchThreshold.
C12_SavedProfileLoaded ==
    [][(localStorage.calibration # <<>> /\ Restart) =>
           LET cal == localStorage.calibration[1]
           IN  /\ baselineRatio' = cal.baselineRatio
               /\ badPostureThreshold' = SavedThreshold(cal)
      ]_vars

\* the cadence of zero-crossings / durationSec * 60 lies strictly between 120
\* and 240 steps per minute
Plausible(cadence) == cadence > 120000 /\ cadence < 240000

\* C13: the cadence handed to showResults is the computed value, stepCount /
\* durationSec * 60, when the session is longer than 1 second and that value
\* lies strictly between 120 and 240, and is 172 otherwise; a session with no
\* zero-crossing, or one no longer than 1 second, reports 172.
C13_CadenceOrFallback ==
    session.finalized =>
        LET cadence == report[1].cadence
            durationMs == session.durationMs
            computed == IF durationMs > 0
                        THEN (session.stepCount * 60000000) \div durationMs
                        ELSE 0
        IN  /\ cadence = 172000 \/ (cadence = computed /\ Plausible(computed))
            /\ (durationMs > 1000 /\ Plausible(computed)) => cadence = computed
            /\ (session.stepCount = 0 \/ durationMs <= 1000) => cadence = 172000

\* C13 witness: a recording of 10 seconds with more than 10 frames and no
\* zero-crossing has been finalized and reports 172.
C13_Witness ==
    /\ session.finalized
    /\ session.durationMs = 4 * TickMs
    /\ Len(session.hipY) > 10
    /\ session.stepCount = 0
    /\ report[1].cadence = 172000

\* the data handed to showResults carries a mark, beside the four metrics,
\* that says the cadence is the fallback
MarksFallback(data) ==
    \E field \in DOMAIN data \ {"cadence", "lean", "hipDrop", "oscillation"} :
        data[field] = TRUE

\* C14 as stated: whenever the computed cadence is replaced by 172, the data
\* handed to showResults marks the cadence as a fallback.
C14_FallbackMarked ==
    (session.finalized /\ report[1].cadence # session.calculatedCadence) =>
        MarksFallback(report[1])

\* C15 as stated: when a recording begins, every buffer its aggregates are
\* computed from is empty; and a frame that arrives while not recording
\* changes no buffer.
C15_BuffersOfOneRecording ==
    [][/\ (~state.isRecording /\ state'.isRecording) =>
              /\ history'.hipY = <<>>
              /\ state'.metrics.leans = <<>>
              /\ state'.metrics.hipDrops = <<>>
       /\ \A f \in GaitFrames :
              (~state.isRecording /\ GaitFrame(f)) =>
                  UNCHANGED <<state, history>>
      ]_vars

\* the sign changes between consecutive entries of the first difference of a
\* series (a velocity of zero counts as not negative)
SignChanges(series) ==
    Cardinality({i \in 1..(Len(series) - 2) :
        (series[i + 1] - series[i] < 0) # (series[i + 2] - series[i + 1] < 0)})

\* C16 as stated: the step count computed at finalize is the number of sign
\* changes of the velocity of the buffered hip-midpoint y series, whatever the
\* series.
C16_StepCountIsSignChanges ==
    session.finalized => session.stepCount = SignChanges(history.hipY)

\* the k-th window of 30 consecutive frames of a series
Window(series, k) ==
    {series[i] : i \in {j \in 1..Len(series) :
                            j > 30 * (k - 1) /\ j <= 30 * k}}

\* the average over all windows of (max - min), as a percentage of the
\* canvas height
WindowedOscillation(series) ==
    LET n == (Len(series) + 29) \div 30
        total == Sum([k \in 1..n |->
                     Max(Window(series, k)) - Min(Window(series, k))])
    IN  IF n = 0 THEN 0 ELSE (((total * 1000) \div n) * 100) \div CanvasHeight

\* C17 as stated: the oscillation reported is the average over all 30-frame
\* windows of the buffered hip-midpoint y history of (max - min) in the
\* window, for a history of any length.
C17_EveryWindowCounts ==
    session.finalized =>
        report[1].oscillation = WindowedOscillation(history.hipY)

\* the mean of the ratios of a sample set (NaN for an empty set)
MeanRatio(samples) ==
    IF Len(samples) = 0 THEN NaN
    ELSE Sum([i \in 1..Len(samples) |-> samples[i].ratio]) \div Len(samples)

\* x lies between a and b inclusive, whichever of the two is larger
Between(x, a, b) ==
    /\ x # NaN /\ a # NaN /\ b # NaN
    /\ (a <= x /\ x <= b) \/ (b <= x /\ x <= a)

\* C18 as stated: whenever calculateThresholds runs, the thresholds it leaves
\* depend on the sample sets only (not on the time of the call, which goes to
\* calibrationDate), and its slouchThreshold lies between the mean ratio of
\* the good samples and the mean ratio of the slouch samples inclusive.
C18_SlouchThresholdBetween ==
    [][(\E type \in SampleTypes : CollectSample(type))
          /\ calibrationState'.thresholds # <<>>
          /\ Len(calibrationState'.samples["shrug"]) >= 3
          /\ calibrationState'.samples # calibrationState.samples
       =>
          LET thresholds == calibrationState'.thresholds[1]
              samples == calibrationState'.samples
              again == Thresholds(samples, 0)
          IN  /\ thresholds.baselineRatio = again.baselineRatio
              /\ thresholds.slouchThreshold = again.slouchThreshold
              /\ thresholds.tiltThreshold = again.tiltThreshold
              /\ thresholds.shrugThreshold = again.shrugThreshold
              /\ Between(thresholds.slouchThreshold,
                         MeanRatio(samples["goodPosture"]),
                         MeanRatio(samples["slouch"]))
      ]_vars

\* C19 as stated: a collect button pressed with a live ratio appends the
\* sample to its set however many the set holds; and when the thresholds are
\* saved, they are the means over every sample the sets hold.
C19_EverySampleAveraged ==
    [][/\ \A type \in SampleTypes :
              (CollectSample(type) /\ ~Falsy(latestRatio)) =>
                  calibrationState'.samples[type] =
                      Append(calibrationState.samples[type],
                             Sample(latestRatio))
       /\ (/\ SaveCalibration
           /\ calibrationState.thresholds # <<>>
           /\ \E type \in SampleTypes :
                  calibrationState.samples[type] # <<>>) =>
              LET saved == localStorage'.calibration[1]
                  means == Thresholds(calibrationState.samples, 0)
              IN  /\ saved.baselineRatio = ToJSON(means.baselineRatio)
                  /\ saved.slouchThreshold = ToJSON(means.slouchThreshold)
                  /\ saved.tiltThreshold = ToJSON(means.tiltThreshold)
                  /\ saved.shrugThreshold = ToJSON(means.shrugThreshold)
      ]_vars

\* C20: processing a frame (onPoseResults, handleBadPosture, triggerPenalty,
\* disablePenalty) leaves baselineRatio, sensitivity, badPostureThreshold,
\* timeLimitMs, the stored settings and calibration, and the wizard's
\* thresholds unchanged.
C20_MonitoringKeepsProfile ==
    [][\A f \in Frames :
          Frame(f) =>
              /\ UNCHANGED <<baselineRatio, sensitivity, badPostureThreshold,
                             timeLimitMs, localStorage>>
              /\ calibrationState'.thresholds = calibrationState.thresholds
      ]_vars

\* C20 witness: a frame has been penalised with a pulse under a time limit
\* the slider was moved to, and the profile is the one configured.
C20_Witness ==
    /\ lastFrame.class = "SLOUCH"
    /\ lastFrame.triggered
    /\ pulses # <<>>
    /\ pulses[Len(pulses)] = now
    /\ timeLimitMs = 10000
    /\ localStorage.timer = 10000
    /\ baselineRatio = DefaultBaselineRatio
    /\ sensitivity = DefaultSensitivity
    /\ badPostureThreshold = 807500

\* C21: disablePenalty takes the blur off and leaves lastFeedbackTime as it
\* was, both when a good frame calls it and when the guard is toggled off, so
\* the cooldown a pulse started runs on.
C21_DisableKeepsCooldown ==
    [][/\ \A f \in Frames :
              (isGuardActive /\ Measurable(f) /\ ~SlouchCondition(f)
                  /\ Frame(f)) =>
                  ~blurMode' /\ lastFeedbackTime' = lastFeedbackTime
       /\ (isGuardActive /\ ToggleGuard) =>
              ~blurMode' /\ lastFeedbackTime' = lastFeedbackTime
      ]_vars

\* C21 witness: a good frame has taken the blur off within the cooldown of a
\* pulse, and lastFeedbackTime is still the time of that pulse.
C21_Witness ==
    /\ isGuardActive
    /\ hasVibrate
    /\ lastFrame.class = "GOOD"
    /\ ~blurMode
    /\ pulses # <<>>
    /\ lastFeedbackTime = pulses[Len(pulses)]
    /\ now - lastFeedbackTime = TickMs

\* C22: the manual zero calibration with a live ratio (latestRatio > 0) makes
\* it the baseline, sets badPostureThreshold to baseline * sensitivity (at
\* least 0.1) and stores the baseline, leaving sensitivity, timeLimitMs and
\* the wizard's samples and thresholds as they were; with no live ratio it
\* changes no configuration and shows an error.
C22_ZeroCalibration ==
    [][PerformCalibration =>
          /\ UNCHANGED <<sensitivity, timeLimitMs, calibrationState>>
          /\ localStorage'.sensitivity = localStorage.sensitivity
          /\ localStorage'.timer = localStorage.timer
          /\ localStorage'.calibration = localStorage.calibration
          /\ latestRatio > 0 =>
                 /\ baselineRatio' = latestRatio
                 /\ badPostureThreshold' =
                        (IF latestRatio * sensitivity < 100000 THEN 100000
                         ELSE latestRatio * sensitivity)
                 /\ localStorage'.baseline = latestRatio
                 /\ calibStatus'.color # Red
          /\ latestRatio = 0 =>
                 /\ UNCHANGED <<baselineRatio, badPostureThreshold,
                                localStorage>>
                 /\ calibStatus'.color = Red
      ]_vars

\* C22 witness: the zero calibration has replaced the wizard's baseline and
\* threshold under a sensitivity of 1.0, the wizard's thresholds standing.
C22_Witness ==
    /\ calibStatus.innerText = "Calibrated!"
    /\ localStorage.calibration # <<>>
    /\ calibrationState.thresholds # <<>>
    /\ sensitivity = 1000
    /\ baselineRatio = latestRatio
    /\ localStorage.baseline = latestRatio
    /\ badPostureThreshold = latestRatio * 1000

\* the local store holds none of the textNeck_* keys
StoreEmpty ==
    /\ localStorage.baseline = Null
    /\ localStorage.sensitivity = Null
    /\ localStorage.timer = Null
    /\ localStorage.calibration = <<>>

\* the hardcoded configuration: 0.95, 0.85, 0.95 * 0.85 and 5000 ms
HardcodedDefaults ==
    /\ baselineRatio = 950
    /\ sensitivity = 850
    /\ badPostureThreshold = 950 * 850
    /\ timeLimitMs = 5000

\* C23: after init has run over an empty local store, on the first visit and
\* on every later load of the page, the configuration is the hardcoded
\* default.
C23_DefaultsOnEmptyStore ==
    /\ StoreEmpty => HardcodedDefaults
    /\ [][(StoreEmpty /\ Restart) => HardcodedDefaults']_vars

\* C23 witness: init has run over an empty store; the guard is off and the
\* defaults are in use.
C23_Witness ==
    /\ StoreEmpty
    /\ HardcodedDefaults
    /\ ~isGuardActive
    /\ cameraStarts = 0
    /\ latestRatio = 0
    /\ calibStatus.innerText = ""

\* the four metrics of the report with their target bands
Metric == {"cadence", "lean", "hipDrop", "oscillation"}

\* a metric of the report lies inside its target band: cadence 170-185,
\* lean 2-12, hipDrop 0-5, oscillation 0-8
InBand(data, metric) ==
    CASE metric = "cadence" -> data.cadence >= 170000 /\ data.cadence <= 185000
      [] metric = "lean" -> data.lean >= 2000 /\ data.lean <= 12000
      [] metric = "hipDrop" -> data.hipDrop >= 0 /\ data.hipDrop <= 5000
      [] metric = "oscillation" ->
             data.oscillation >= 0 /\ data.oscillation <= 8000

\* the recommendations that speak of a metric
RecommendationsFor(metric) ==
    CASE metric = "cadence" ->
             {"Increase cadence (take shorter, faster steps)"}
      [] metric = "lean" -> {"Run taller, reduce forward lean",
                             "Lean slightly forward from ankles"}
      [] metric = "hipDrop" ->
             {"Strengthen glutes (clamshells, bridges) to fix hip drop"}
      [] metric = "oscillation" ->
             {"Focus on gliding, not bouncing up and down"}

\* C24 as stated: the focus list shown is the single entry "Great form! Keep
\* it consistent." exactly when all four metrics are inside their bands, and
\* every metric outside its band has a recommendation in the list.
C24_RecommendationsFromBands ==
    resultView # <<>> =>
        LET data == report[1]
            list == resultView[1].focusList
        IN  /\ list = <<"Great form! Keep it consistent.">> <=>
                   \A metric \in Metric : InBand(data, metric)
            /\ \A metric \in Metric :
                   ~InBand(data, metric) =>
                       \E i \in 1..Len(list) :
                           list[i] \in RecommendationsFor(metric)

\* C25: with no vibration actuator (navigator.vibrate absent) triggerPenalty
\* still asserts the blur and starts the cooldown but emits no pulse, and the
\* frames go on being classified: a bad frame continues the streak, a good
\* frame takes the blur off and ends the streak, as with the actuator.
C25_NoActuator ==
    /\ [](~hasVibrate => pulses = <<>>)
    /\ [][~hasVibrate =>
            \A f \in Frames :
                (isGuardActive /\ Measurable(f) /\ Frame(f)) =>
                    LET bad == SlouchCondition(f)
                        start == IF ~bad THEN Null
                                 ELSE IF badPostureStartTime = Null THEN now
                                 ELSE badPostureStartTime
                        triggered == bad /\ now - start > timeLimitMs
                    IN  /\ lastFrame'.class = IF bad THEN "SLOUCH" ELSE "GOOD"
                        /\ lastFrame'.triggered = triggered
                        /\ badPostureStartTime' = start
                        /\ blurMode' = IF triggered THEN TRUE
                                       ELSE IF bad THEN blurMode ELSE FALSE
                        /\ lastFeedbackTime' =
                               IF triggered /\ now - lastFeedbackTime
                                                   > FEEDBACK_COOLDOWN
                               THEN now ELSE lastFeedbackTime
                        /\ pulses' = pulses
                        /\ triggered =>
                               /\ calls'[Len(calls')].t = now
                               /\ calls'[Len(calls')].blur
                               /\ ~calls'[Len(calls')].pulsed
       ]_vars

\* C25 witness: without the actuator a streak has been penalised past the
\* cooldown (blur asserted, the cooldown started, no pulse) and a good frame
\* has then taken the blur off.
C25_Witness ==
    /\ ~hasVibrate
    /\ isGuardActive
    /\ calls # <<>>
    /\ calls[Len(calls)].blur
    /\ lastFeedbackTime = calls[Len(calls)].t
    /\ pulses = <<>>
    /\ lastFrame.class = "GOOD"
    /\ ~blurMode
    /\ badPostureStartTime = Null

\* C26: whenever the guard is inactive the bad-streak timer is null and the
\* blur is off: toggling the guard off clears both, and a frame processed
\* while it is inactive (the settings modal open) changes latestRatio only:
\* it starts no streak, asserts no blur and emits no pulse.
C26_InactiveGuardIsClear ==
    /\ [](~isGuardActive => badPostureStartTime = Null /\ ~blurMode)
    /\ [][/\ (isGuardActive /\ ToggleGuard) =>
                 ~isGuardActive' /\ badPostureStartTime' = Null /\ ~blurMode'
          /\ \A f \in Frames :
                 (~isGuardActive /\ Frame(f)) =>
                     /\ Measurable(f) => latestRatio' = Metrics[f].ratio
                     /\ ~Measurable(f) => latestRatio' = latestRatio
                     /\ UNCHANGED <<badPostureStartTime, blurMode,
                                    lastFeedbackTime, pulses, calls,
                                    isGuardActive>>
                     /\ UNCHANGED <<configVars, wizardVars>>
         ]_vars

\* C26 witness: a penalised streak was cut by toggling the guard off, and a
\* slouched frame has since come in with the settings open: its ratio is the
\* latest one, below the threshold, and there is neither streak nor blur.
C26_Witness ==
    /\ ~isGuardActive
    /\ settingsOpen
    /\ calls # <<>>
    /\ calls[Len(calls)].blur
    /\ lastFrame.class = "UNCLASSIFIED"
    /\ latestRatio > 0
    /\ IsBadPosture(latestRatio, badPostureThreshold)
    /\ badPostureStartTime = Null
    /\ ~blurMode

\* C27 as stated: after every frame classified while the guard is active, the
\* blur is asserted if and only if the frame was bad and the streak's elapsed
\* time exceeds the time limit as configured at that frame, also when the
\* slider changed the limit during the streak.
C27_BlurIffOverLimit ==
    [][\A f \in Frames :
          (isGuardActive /\ Measurable(f) /\ Frame(f)) =>
              (blurMode' <=>
                   /\ SlouchCondition(f)
                   /\ now - badPostureStartTime' > timeLimitMs)
      ]_vars

\* C28 as stated: whenever startCamera has completed successfully (the first
\* time, and again after showLanding) and the stream is open, the frame loop
\* is running: a pose.send is in flight or the next animation frame is
\* requested.
C28_LoopRunsWhileStreamOpen ==
    (cameraStarted /\ state.stream = "live") =>
        frameLoop \in {"sending", "waiting"}

C30_ResetHoldsStep ==
    [][/\ (/\ calibrationState.currentStep = 0
           /\ calibrationState'.currentStep # 0) => StartCalibration
       /\ calibrationState'.currentStep # calibrationState.currentStep =>
              calibrationState'.currentStep
                  \in {0, calibrationState.currentStep + 1}
      ]_vars

\* C31 as stated: camera.start() is called at most once in the lifetime of
\* the page, under every interleaving of guard toggles and wizard openings.
C31_CameraStartedOnce == cameraStarts <= 1

\* C32 as stated: badPostureThreshold is a number of at least 0.1 in every
\* reachable state, whatever sensitivity changes, zero calibrations, settings
\* loads and wizard saves came before.
C32_ThresholdFloor ==
    /\ badPostureThreshold # NaN
    /\ badPostureThreshold >= MinThreshold

\* the same pose with the two hip landmarks exchanged
HipsSwapped(lm) == [lm EXCEPT !.lHip = lm.rHip, !.rHip = lm.lHip]

\* C33 as stated: the hip-line angle recorded for a frame does not depend on
\* which hip has the greater x: level hips give 0 degrees either way, and the
\* angle is the one the frame with the hip landmarks exchanged would give.
C33_HipAngleSymmetric ==
    [][\A f \in HipLineFrames :
          (state.isRecording /\ HipLineFrame(f)) =>
              LET lm == f.poseLandmarks[1]
                  hipDrops == state'.metrics.hipDrops
                  hipAngle == hipDrops[Len(hipDrops)]
              IN  /\ lm.lHip.y = lm.rHip.y => hipAngle = 0
                  /\ hipAngle = HipAngle(HipsSwapped(lm))
      ]_vars

====
